---- MODULE Spec2Model ----
(***************************************************************************)
(* Model of the in-memory calendar service (package calendar) and of the   *)
(* way the HTTP layer calls it.                                            *)
(*                                                                         *)
(* A time.Time value is a record [day, hour, off]: the calendar day of the *)
(* value in its own location (days since 1970-01-01), the hour of the day  *)
(* in that location, and the location's offset from UTC in hours.  Two     *)
(* values denote the same instant iff day*24 + hour - off agree, which is  *)
(* what Time.Equal, Time.Before and Time.After compare.                    *)
(*                                                                         *)
(* Identifiers are strings; uuid.NewString() yields any identifier that    *)
(* was never issued before.  Go's string order on identifiers is the order *)
(* of the sequence UUIDs.                                                  *)
(***************************************************************************)
EXTENDS Integers, Sequences, FiniteSets, TLC

VARIABLES userToEventsMap, issued, deleted, ret, mu, proc, committed

vars == <<userToEventsMap, issued, deleted, ret, mu, proc, committed>>

\* the state of the concurrent callers: the RWMutex, each goroutine's
\* position, and the map as the calls that have returned leave it
conc == <<mu, proc, committed>>

(***************************************************************************)
(* Bounds and input sets                                                   *)
(***************************************************************************)
MaxIDs == 2

UUIDs == <<"u1", "u2", "u3", "u4">>

IDs == {UUIDs[i] : i \in 1..MaxIDs}

UserIDs == {-1, 0, 1, 2}

Texts == {"", "a", "b"}

\* error values of the package
nil == "nil"

ErrNotFound == "event not found"

ErrInvalidUserID == "invalid user id"

ErrInvalidText == "invalid text"

(***************************************************************************)
(* time.Time                                                               *)
(***************************************************************************)
\* floor division and modulo as Go's time package uses them on day counts
HoursPerDay == 24

Instant(t) == t.day * HoursPerDay + t.hour - t.off

Equal(t, u) == Instant(t) = Instant(u)

Before(t, u) == Instant(t) < Instant(u)

After(t, u) == Instant(t) > Instant(u)

\* civil date (year, month, day of month) of a day count
CivilFromDays(n) ==
    LET z   == n + 719468
        era == z \div 146097
        doe == z - era * 146097
        yoe == (doe - doe \div 1460 + doe \div 36524 - doe \div 146096) \div 365
        doy == doe - (365 * yoe + yoe \div 4 - yoe \div 100)
        mp  == (5 * doy + 2) \div 153
        d   == doy - (153 * mp + 2) \div 5 + 1
        m   == IF mp < 10 THEN mp + 3 ELSE mp - 9
        y   == yoe + era * 400 + (IF m <= 2 THEN 1 ELSE 0)
    IN  [year |-> y, month |-> m, dom |-> d]

Year(t) == CivilFromDays(t.day).year

Month(t) == CivilFromDays(t.day).month

Day(t) == CivilFromDays(t.day).dom

\* day count of year y, month m (1..12), day 1
DaysFromCivil(y, m) ==
    LET yy  == IF m <= 2 THEN y - 1 ELSE y
        era == yy \div 400
        yoe == yy - era * 400
        doy == (153 * (IF m > 2 THEN m - 3 ELSE m + 9) + 2) \div 5
        doe == yoe * 365 + yoe \div 4 - yoe \div 100 + doy
    IN  era * 146097 + doe - 719468

\* time.Date(y, m, d, 0, 0, 0, 0, loc): month and day may be out of range and
\* are normalised (month 13 is January of the next year, day 0 the last day of
\* the previous month, ...)
Date(y, m, d, loc) ==
    LET m0 == m - 1
        yn == y + m0 \div 12
        mn == (m0 % 12) + 1
    IN  [day |-> DaysFromCivil(yn, mn) + d - 1, hour |-> 0, off |-> loc]

Location(t) == t.off

\* Time.Weekday: Sunday = 0 ... Saturday = 6 (1970-01-01 was a Thursday)
Weekday(t) == (t.day + 4) % 7

\* Time.AddDate(years, months, days)
AddDate(t, years, months, days) ==
    [Date(Year(t) + years, Month(t) + months, Day(t) + days, Location(t))
        EXCEPT !.hour = t.hour]

\* the zero time.Time: January 1, year 1, 00:00 UTC
ZeroTime == Date(1, 1, 1, 0)

\* no normalisation at all
normalizeDateNone(d) == d

normalizeDate(d) == Date(Year(d), Month(d), Day(d), Location(d))

\* the time values callers pass: UTC midnights of Sunday 2023-12-24, Monday
\* 2023-12-25, Sunday 2023-12-31 and Monday 2024-01-01 (what the HTTP layer's
\* time.Parse("2006-01-02", ...) yields), 2023-12-31 23:00 UTC, and
\* 2023-12-31 02:00 in a location three hours east of UTC
Times ==
    { [day |-> 19715, hour |-> 0, off |-> 0],
      [day |-> 19716, hour |-> 0, off |-> 0],
      [day |-> 19722, hour |-> 0, off |-> 0],
      [day |-> 19723, hour |-> 0, off |-> 0],
      [day |-> 19722, hour |-> 23, off |-> 0],
      [day |-> 19722, hour |-> 2, off |-> 3] }

(***************************************************************************)
(* Event and the two-level map                                             *)
(***************************************************************************)
Event(id, userID, date, text) ==
    [ID |-> id, UserID |-> userID, Date |-> date, Text |-> text]

\* Event{}, returned next to every error
NoEvent == Event("", 0, ZeroTime, "")

\* make(map[...]...): a map without keys
EmptyMap == [k \in {} |-> NoEvent]

\* m[k] = v
MapSet(m, k, v) == [x \in DOMAIN m \cup {k} |-> IF x = k THEN v ELSE m[x]]

\* delete(m, k)
MapDelete(m, k) == [x \in DOMAIN m \ {k} |-> m[x]]

NewService == EmptyMap

\* an identifier generator that only avoids the identifiers now in the store
NewStringReuse(used) ==
    IDs \ UNION {DOMAIN userToEventsMap[uid] : uid \in DOMAIN userToEventsMap}

\* uuid.NewString(): any identifier never issued before
NewString(used) == IDs \ used

\* Go's < on identifier strings
Rank(id) == CHOOSE i \in 1..Len(UUIDs) : UUIDs[i] = id

StringLess(a, b) == Rank(a) < Rank(b)

(***************************************************************************)
(* Service operations: each maps the map m and the arguments to the        *)
(* returned error, the returned value and the map after the call.          *)
(***************************************************************************)
Failure(m, e) == [err |-> e, ev |-> NoEvent, events |-> <<>>, store |-> m]

\* CreateEvent with the two validations in the other order
CreateEventTextFirst(m, newID, userID, date, text) ==
    IF text = "" THEN Failure(m, ErrInvalidText)
    ELSE IF userID <= 0 THEN Failure(m, ErrInvalidUserID)
    ELSE LET newEvent == Event(newID, userID, normalizeDate(date), text)
             bucket   == IF userID \in DOMAIN m THEN m[userID] ELSE EmptyMap
         IN  [err |-> nil, ev |-> newEvent, events |-> <<>>,
              store |-> MapSet(m, userID, MapSet(bucket, newID, newEvent))]

\* CreateEvent that makes a new bucket on every call
CreateEventFreshBucket(m, newID, userID, date, text) ==
    IF userID <= 0 THEN Failure(m, ErrInvalidUserID)
    ELSE IF text = "" THEN Failure(m, ErrInvalidText)
    ELSE LET newEvent == Event(newID, userID, normalizeDate(date), text)
         IN  [err |-> nil, ev |-> newEvent, events |-> <<>>,
              store |-> MapSet(m, userID, MapSet(EmptyMap, newID, newEvent))]

\* CreateEvent that makes the user's bucket before it validates the text
CreateEventBucketFirst(m, newID, userID, date, text) ==
    IF userID <= 0 THEN Failure(m, ErrInvalidUserID)
    ELSE LET bucket == IF userID \in DOMAIN m THEN m[userID] ELSE EmptyMap
         IN  IF text = ""
             THEN [Failure(m, ErrInvalidText)
                      EXCEPT !.store = MapSet(m, userID, bucket)]
             ELSE LET newEvent == Event(newID, userID, normalizeDate(date), text)
                  IN  [err |-> nil, ev |-> newEvent, events |-> <<>>,
                       store |-> MapSet(m, userID,
                                        MapSet(bucket, newID, newEvent))]

CreateEvent(m, newID, userID, date, text) ==
    IF userID <= 0 THEN Failure(m, ErrInvalidUserID)
    ELSE IF text = "" THEN Failure(m, ErrInvalidText)
    ELSE LET newEvent == Event(newID, userID, normalizeDate(date), text)
             bucket   == IF userID \in DOMAIN m THEN m[userID] ELSE EmptyMap
         IN  [err |-> nil, ev |-> newEvent, events |-> <<>>,
              store |-> MapSet(m, userID, MapSet(bucket, newID, newEvent))]

\* UpdateEvent that looks the event up before it validates userID and text
UpdateEventLookupFirst(m, id, userID, date, text) ==
    IF id = "" THEN Failure(m, ErrNotFound)
    ELSE IF userID \notin DOMAIN m THEN Failure(m, ErrNotFound)
    ELSE IF id \notin DOMAIN m[userID] THEN Failure(m, ErrNotFound)
    ELSE IF userID <= 0 THEN Failure(m, ErrInvalidUserID)
    ELSE IF text = "" THEN Failure(m, ErrInvalidText)
    ELSE LET ev == [m[userID][id] EXCEPT !.Date = normalizeDate(date),
                                         !.Text = text]
         IN  [err |-> nil, ev |-> ev, events |-> <<>>,
              store |-> MapSet(m, userID, MapSet(m[userID], id, ev))]

\* UpdateEvent that looks id up in every bucket instead of the caller's
UpdateEventAnyUser(m, id, userID, date, text) ==
    IF id = "" THEN Failure(m, ErrNotFound)
    ELSE IF userID <= 0 THEN Failure(m, ErrInvalidUserID)
    ELSE IF text = "" THEN Failure(m, ErrInvalidText)
    ELSE LET holders == {uid \in DOMAIN m : id \in DOMAIN m[uid]}
         IN  IF holders = {} THEN Failure(m, ErrNotFound)
             ELSE LET uid == CHOOSE h \in holders : TRUE
                      ev  == [m[uid][id] EXCEPT !.Date = normalizeDate(date),
                                                !.Text = text]
                  IN  [err |-> nil, ev |-> ev, events |-> <<>>,
                       store |-> MapSet(m, uid, MapSet(m[uid], id, ev))]

\* UpdateEvent without the write back userEvents[id] = ev
UpdateEventNoStore(m, id, userID, date, text) ==
    IF id = "" THEN Failure(m, ErrNotFound)
    ELSE IF userID <= 0 THEN Failure(m, ErrInvalidUserID)
    ELSE IF text = "" THEN Failure(m, ErrInvalidText)
    ELSE IF userID \notin DOMAIN m THEN Failure(m, ErrNotFound)
    ELSE IF id \notin DOMAIN m[userID] THEN Failure(m, ErrNotFound)
    ELSE LET ev == [m[userID][id] EXCEPT !.Date = normalizeDate(date),
                                         !.Text = text]
         IN  [err |-> nil, ev |-> ev, events |-> <<>>, store |-> m]

\* UpdateEvent without the validation of text
UpdateEventNoTextCheck(m, id, userID, date, text) ==
    IF id = "" THEN Failure(m, ErrNotFound)
    ELSE IF userID <= 0 THEN Failure(m, ErrInvalidUserID)
    ELSE IF userID \notin DOMAIN m THEN Failure(m, ErrNotFound)
    ELSE IF id \notin DOMAIN m[userID] THEN Failure(m, ErrNotFound)
    ELSE LET ev == [m[userID][id] EXCEPT !.Date = normalizeDate(date),
                                         !.Text = text]
         IN  [err |-> nil, ev |-> ev, events |-> <<>>,
              store |-> MapSet(m, userID, MapSet(m[userID], id, ev))]

UpdateEvent(m, id, userID, date, text) ==
    IF id = "" THEN Failure(m, ErrNotFound)
    ELSE IF userID <= 0 THEN Failure(m, ErrInvalidUserID)
    ELSE IF text = "" THEN Failure(m, ErrInvalidText)
    ELSE IF userID \notin DOMAIN m THEN Failure(m, ErrNotFound)
    ELSE IF id \notin DOMAIN m[userID] THEN Failure(m, ErrNotFound)
    ELSE LET ev == [m[userID][id] EXCEPT !.Date = normalizeDate(date),
                                         !.Text = text]
         IN  [err |-> nil, ev |-> ev, events |-> <<>>,
              store |-> MapSet(m, userID, MapSet(m[userID], id, ev))]

\* a scoped branch that falls back to the other buckets when the caller's
\* bucket does not hold id
DeleteScopedAnyUser(m, id, userID) ==
    LET holders == {uid \in DOMAIN m : id \in DOMAIN m[uid]}
    IN  IF holders = {} THEN Failure(m, ErrNotFound)
        ELSE LET uid == IF userID \in holders THEN userID
                        ELSE CHOOSE h \in holders : TRUE
             IN  [err |-> nil, ev |-> NoEvent, events |-> <<>>,
                  store |-> MapSet(m, uid, MapDelete(m[uid], id))]

\* the scoped branch of DeleteEvent (userID > 0)
DeleteScoped(m, id, userID) ==
    IF userID \notin DOMAIN m THEN Failure(m, ErrNotFound)
    ELSE IF id \notin DOMAIN m[userID] THEN Failure(m, ErrNotFound)
    ELSE [err |-> nil, ev |-> NoEvent, events |-> <<>>,
          store |-> MapSet(m, userID, MapDelete(m[userID], id))]

\* an unscoped branch that drops the whole bucket in which it finds id
DeleteFromWholeBucket(m, id, uid) ==
    [err |-> nil, ev |-> NoEvent, events |-> <<>>, store |-> MapDelete(m, uid)]

\* one iteration of the loop of the unscoped branch that finds id in the
\* bucket of uid
DeleteFrom(m, id, uid) ==
    LET userEvents == MapDelete(m[uid], id)
    IN  [err |-> nil, ev |-> NoEvent, events |-> <<>>,
         store |-> IF DOMAIN userEvents = {} THEN MapDelete(m, uid)
                   ELSE MapSet(m, uid, userEvents)]

\* DeleteEvent: the set of outcomes.  The unscoped branch ranges over the
\* map in an unspecified order and stops at the first bucket holding id, so
\* any bucket holding id may be the one.
DeleteEvent(m, id, userID) ==
    IF id = "" THEN {Failure(m, ErrNotFound)}
    ELSE IF userID > 0 THEN {DeleteScoped(m, id, userID)}
    ELSE LET holders == {uid \in DOMAIN m : id \in DOMAIN m[uid]}
         IN  IF holders = {} THEN {Failure(m, ErrNotFound)}
             ELSE {DeleteFrom(m, id, uid) : uid \in holders}

(***************************************************************************)
(* Range queries                                                           *)
(***************************************************************************)
\* a less function that orders by date descending
LessDescending(a, b) ==
    \/ After(a.Date, b.Date)
    \/ Equal(a.Date, b.Date) /\ StringLess(a.ID, b.ID)

\* the less function handed to sort.Slice
Less(a, b) ==
    \/ Before(a.Date, b.Date)
    \/ Equal(a.Date, b.Date) /\ StringLess(a.ID, b.ID)

\* sort.Slice(res, less) on the events collected from the map (collected in
\* an unspecified order): the events ordered by less
RECURSIVE SortSlice(_)
SortSlice(S) ==
    IF S = {} THEN <<>>
    ELSE LET first == CHOOSE e \in S : \A o \in S \ {e} : ~Less(o, e)
         IN  <<first>> \o SortSlice(S \ {first})

\* the values of a bucket
Values(bucket) == {bucket[id] : id \in DOMAIN bucket}

Found(m, evs) == [err |-> nil, ev |-> NoEvent, events |-> evs, store |-> m]

\* EventsForDay that reports a user without a bucket as NotFound
EventsForDayNotFound(m, userID, day0) ==
    IF userID <= 0 THEN Failure(m, ErrInvalidUserID)
    ELSE LET day == normalizeDate(day0)
         IN  IF userID \notin DOMAIN m THEN Failure(m, ErrNotFound)
             ELSE Found(m, SortSlice({ev \in Values(m[userID]) :
                                         Equal(ev.Date, day)}))

EventsForDay(m, userID, day0) ==
    IF userID <= 0 THEN Failure(m, ErrInvalidUserID)
    ELSE LET day == normalizeDate(day0)
         IN  IF userID \notin DOMAIN m THEN Found(m, <<>>)
             ELSE Found(m, SortSlice({ev \in Values(m[userID]) :
                                         Equal(ev.Date, day)}))

\* a week start without the Sunday correction: a Sunday is put in the week
\* that starts the day after it
WeekStartSundayFirst(anyDay0) ==
    LET anyDay  == normalizeDate(anyDay0)
        weekday == Weekday(anyDay)
    IN  AddDate(anyDay, 0, 0, -(weekday - 1))

\* start of the week of anyDay0 as EventsForWeek computes it
WeekStart(anyDay0) ==
    LET anyDay  == normalizeDate(anyDay0)
        wd      == Weekday(anyDay)
        weekday == IF wd = 0 THEN 7 ELSE wd
    IN  AddDate(anyDay, 0, 0, -(weekday - 1))

EventsForWeek(m, userID, anyDay0) ==
    IF userID <= 0 THEN Failure(m, ErrInvalidUserID)
    ELSE LET start == WeekStart(anyDay0)
             end   == AddDate(start, 0, 0, 7)
         IN  IF userID \notin DOMAIN m THEN Found(m, <<>>)
             ELSE Found(m, SortSlice({ev \in Values(m[userID]) :
                     /\ Equal(ev.Date, start) \/ After(ev.Date, start)
                     /\ Before(ev.Date, end)}))

\* start of the month of anyDay0 as EventsForMonth computes it
MonthStart(anyDay0) ==
    LET anyDay == normalizeDate(anyDay0)
    IN  Date(Year(anyDay), Month(anyDay), 1, Location(anyDay))

\* EventsForMonth with every month taken as thirty days long
EventsForMonthThirtyDays(m, userID, anyDay0) ==
    IF userID <= 0 THEN Failure(m, ErrInvalidUserID)
    ELSE LET start == MonthStart(anyDay0)
             end   == AddDate(start, 0, 0, 30)
         IN  IF userID \notin DOMAIN m THEN Found(m, <<>>)
             ELSE Found(m, SortSlice({ev \in Values(m[userID]) :
                     /\ Equal(ev.Date, start) \/ After(ev.Date, start)
                     /\ Before(ev.Date, end)}))

EventsForMonth(m, userID, anyDay0) ==
    IF userID <= 0 THEN Failure(m, ErrInvalidUserID)
    ELSE LET start == MonthStart(anyDay0)
             end   == AddDate(start, 0, 1, 0)
         IN  IF userID \notin DOMAIN m THEN Found(m, <<>>)
             ELSE Found(m, SortSlice({ev \in Values(m[userID]) :
                     /\ Equal(ev.Date, start) \/ After(ev.Date, start)
                     /\ Before(ev.Date, end)}))

(***************************************************************************)
(* The state machine.  One caller at a time: a call runs as one step (the   *)
(* service holds its lock for the whole of the map access) and leaves in   *)
(* ret the operation, its arguments and what it returned; Respond is the   *)
(* caller taking the result, after which the next call may start.  deleted *)
(* is the set of identifiers some DeleteEvent call has removed             *)
(* successfully.                                                           *)
(***************************************************************************)
Call(op, id, userID, date, text, r) ==
    [op |-> op, id |-> id, userID |-> userID, date |-> date, text |-> text,
     err |-> r.err, ev |-> r.ev, events |-> r.events]

\* no call in progress
Idle == Call("", "", 0, ZeroTime, "", Failure(NewService, nil))

\* the goroutines that call the service concurrently
MaxProcs == 2
Procs == 1..MaxProcs

\* a goroutine that is not inside a call
IdleProc ==
    [pc |-> "idle", op |-> "", id |-> "", userID |-> 0, date |-> ZeroTime,
     text |-> "", uid |-> 0]

\* the zero value of sync.RWMutex: no writer, no readers
Unlocked == [writer |-> 0, readers |-> {}]

Init ==
    /\ userToEventsMap = NewService
    /\ issued = {}
    /\ deleted = {}
    /\ ret = Idle
    /\ mu = Unlocked
    /\ proc = [p \in Procs |-> IdleProc]
    /\ committed = NewService

\* CreateEvent that fails validation (no identifier is generated)
CreateEventInvalid ==
    /\ ret = Idle
    /\ UNCHANGED conc
    /\ \E userID \in UserIDs, date \in Times, text \in Texts :
        /\ userID <= 0 \/ text = ""
        /\ LET r == CreateEvent(userToEventsMap, "", userID, date, text)
           IN  /\ userToEventsMap' = r.store
               /\ ret' = Call("CreateEvent", "", userID, date, text, r)
        /\ UNCHANGED <<issued, deleted>>

CreateEventOK ==
    /\ ret = Idle
    /\ UNCHANGED conc
    /\ \E userID \in UserIDs, date \in Times, text \in Texts :
        /\ userID > 0 /\ text # ""
        /\ \E newID \in NewString(issued) :
             LET r == CreateEvent(userToEventsMap, newID, userID, date, text)
             IN  /\ userToEventsMap' = r.store
                 /\ issued' = issued \cup {newID}
                 /\ ret' = Call("CreateEvent", "", userID, date, text, r)
        /\ UNCHANGED deleted

UpdateEventCall ==
    /\ ret = Idle
    /\ UNCHANGED conc
    /\ \E id \in IDs \cup {""}, userID \in UserIDs, date \in Times, text \in Texts :
        LET r == UpdateEvent(userToEventsMap, id, userID, date, text)
        IN  /\ userToEventsMap' = r.store
            /\ ret' = Call("UpdateEvent", id, userID, date, text, r)
            /\ UNCHANGED <<issued, deleted>>

DeleteEventCall ==
    /\ ret = Idle
    /\ UNCHANGED conc
    /\ \E id \in IDs \cup {""}, userID \in UserIDs :
        \E r \in DeleteEvent(userToEventsMap, id, userID) :
            /\ userToEventsMap' = r.store
            /\ deleted' = IF r.err = nil THEN deleted \cup {id} ELSE deleted
            /\ ret' = Call("DeleteEvent", id, userID, ZeroTime, "", r)
            /\ UNCHANGED issued

EventsForDayCall ==
    /\ ret = Idle
    /\ UNCHANGED conc
    /\ \E userID \in UserIDs, day \in Times :
        LET r == EventsForDay(userToEventsMap, userID, day)
        IN  /\ ret' = Call("EventsForDay", "", userID, day, "", r)
            /\ UNCHANGED <<userToEventsMap, issued, deleted>>

EventsForWeekCall ==
    /\ ret = Idle
    /\ UNCHANGED conc
    /\ \E userID \in UserIDs, anyDay \in Times :
        LET r == EventsForWeek(userToEventsMap, userID, anyDay)
        IN  /\ ret' = Call("EventsForWeek", "", userID, anyDay, "", r)
            /\ UNCHANGED <<userToEventsMap, issued, deleted>>

EventsForMonthCall ==
    /\ ret = Idle
    /\ UNCHANGED conc
    /\ \E userID \in UserIDs, anyDay \in Times :
        LET r == EventsForMonth(userToEventsMap, userID, anyDay)
        IN  /\ ret' = Call("EventsForMonth", "", userID, anyDay, "", r)
            /\ UNCHANGED <<userToEventsMap, issued, deleted>>

\* the caller has the result (the handler has written its response)
Respond ==
    /\ ret # Idle
    /\ ret' = Idle
    /\ UNCHANGED conc
    /\ UNCHANGED <<userToEventsMap, issued, deleted>>

Next ==
    \/ CreateEventInvalid
    \/ CreateEventOK
    \/ UpdateEventCall
    \/ DeleteEventCall
    \/ EventsForDayCall
    \/ EventsForWeekCall
    \/ EventsForMonthCall
    \/ Respond

Spec == Init /\ [][Next]_vars

(***************************************************************************)
(* The HTTP handler of /delete_event.  A form value that is parsed as a    *)
(* number is a sequence of one-character strings.                          *)
(***************************************************************************)
DecimalDigits == <<"0", "1", "2", "3", "4", "5", "6", "7", "8", "9">>

IsDigit(c) == \E i \in 1..Len(DecimalDigits) : DecimalDigits[i] = c

DigitValue(c) == (CHOOSE i \in 1..Len(DecimalDigits) : DecimalDigits[i] = c) - 1

\* the value of a sequence of digits
RECURSIVE DigitsValue(_)
DigitsValue(ds) ==
    IF ds = <<>> THEN 0
    ELSE DigitsValue(SubSeq(ds, 1, Len(ds) - 1)) * 10 + DigitValue(ds[Len(ds)])

\* the values of user_id requests carry: none, words, zero, a negative
\* number, the users 1 and 2 (also written +2), and two numerals of twenty
\* digits, beyond the range of int64
TwentyNines == [i \in 1..20 |-> "9"]

UserIDStrings ==
    { <<>>, <<"a", "b">>, <<"1", "x">>, <<"0">>, <<"-", "1">>, <<"1">>,
      <<"2">>, <<"+", "2">>, TwentyNines, <<"-">> \o TwentyNines }

\* the model's integers are narrower than int64: these two stand for
\* 1<<63 - 1 and -1<<63, the values strconv.ParseInt returns next to a
\* range error
MaxInt64 == 2147483647

MinInt64 == -2147483647

ErrSyntax == "invalid syntax"

ErrRange == "value out of range"

\* strconv.ParseInt(s, 10, 64): an optional sign, then decimal digits.
\* Every numeral of more than nineteen digits is out of range; numerals of
\* ten to nineteen digits are not among the values requests carry.
ParseInt(s) ==
    LET signed == s # <<>> /\ s[1] \in {"+", "-"}
        neg    == s # <<>> /\ s[1] = "-"
        digits == IF signed THEN Tail(s) ELSE s
    IN  IF digits = <<>> \/ \E i \in 1..Len(digits) : ~IsDigit(digits[i])
        THEN [n |-> 0, err |-> ErrSyntax]
        ELSE IF Len(digits) > 19
        THEN [n |-> IF neg THEN MinInt64 ELSE MaxInt64, err |-> ErrRange]
        ELSE [n |-> IF neg THEN -DigitsValue(digits) ELSE DigitsValue(digits),
              err |-> nil]

\* the uid that handleDeleteEvent hands to DeleteEvent: zero when user_id is
\* absent or empty, otherwise whatever ParseInt returns, its error dropped
DeleteUID(user_id) == IF user_id # <<>> THEN ParseInt(user_id).n ELSE 0

Response(status, uid, r) ==
    [status |-> status, uid |-> uid, err |-> r.err, store |-> r.store]

\* a handler that validates user_id the way parseUserID does for the other
\* mutations: 400 when it is absent, not a number or <= 0
handleDeleteEventStrict(m, method, parsed, id, user_id) ==
    IF method # "POST" THEN {Response(405, 0, Failure(m, nil))}
    ELSE IF ~parsed THEN {Response(500, 0, Failure(m, nil))}
    ELSE IF user_id = <<>> \/ ParseInt(user_id).err # nil
            \/ ParseInt(user_id).n <= 0
    THEN {Response(400, 0, Failure(m, nil))}
    ELSE {Response(IF r.err = nil THEN 200 ELSE 503, ParseInt(user_id).n, r) :
             r \in DeleteEvent(m, id, ParseInt(user_id).n)}

\* handleDeleteEvent: the set of outcomes (status written, uid passed on,
\* error of DeleteEvent, map afterwards).  parsed tells whether
\* parseBodyOrForm could read the body.
handleDeleteEvent(m, method, parsed, id, user_id) ==
    IF method # "POST" THEN {Response(405, 0, Failure(m, nil))}
    ELSE IF ~parsed THEN {Response(500, 0, Failure(m, nil))}
    ELSE LET uid == DeleteUID(user_id)
         IN  {Response(IF r.err = nil THEN 200
                       ELSE IF r.err = ErrNotFound THEN 503 ELSE 500, uid, r) :
                 r \in DeleteEvent(m, id, uid)}

HandleDeleteEvent ==
    /\ ret = Idle
    /\ UNCHANGED conc
    /\ \E method \in {"POST", "GET"}, parsed \in BOOLEAN,
          id \in IDs \cup {""}, user_id \in UserIDStrings :
        \E r \in handleDeleteEvent(userToEventsMap, method, parsed, id, user_id) :
            /\ userToEventsMap' = r.store
            /\ deleted' = IF r.status = 200 THEN deleted \cup {id} ELSE deleted
            /\ ret' = [op |-> "handleDeleteEvent", method |-> method,
                       parsed |-> parsed, id |-> id, user_id |-> user_id,
                       userID |-> r.uid, status |-> r.status, err |-> r.err]
            /\ UNCHANGED issued

\* the service behind the HTTP layer: events are created, and deleted
\* through /delete_event
NextHTTP ==
    \/ CreateEventOK
    \/ HandleDeleteEvent
    \/ Respond

SpecHTTP == Init /\ [][NextHTTP]_vars

(***************************************************************************)
(* Concurrent callers.  Each goroutine of Procs is inside at most one call. *)
(* A call that mutates validates its arguments, takes s.mu.Lock(), runs    *)
(* its map statements one at a time and releases the lock on return        *)
(* (defer s.mu.Unlock()); a query takes s.mu.RLock(), reads and releases   *)
(* on return.  committed is the map the calls that have returned produce   *)
(* when each is applied as a whole, in the order of their returns.         *)
(***************************************************************************)
ConcUserIDs == {0, 1, 2}

ConcTexts == {"a", "b"}

ConcTimes == {[day |-> 19716, hour |-> 0, off |-> 0]}

QueryOps == {"EventsForDay", "EventsForWeek", "EventsForMonth"}

\* program positions between Lock() and the deferred Unlock()
WriterCS ==
    {"create_bucket", "create_insert", "update", "delete", "delete_bucket",
     "unlock"}

\* program position between RLock() and the deferred RUnlock()
ReaderCS == {"read"}

\* a writer that does not wait for the readers to leave
CanLockIgnoringReaders(m) == m.writer = 0

\* Lock() returns once no goroutine holds the mutex for writing or reading
CanLock(m) == m.writer = 0 /\ m.readers = {}

\* a reader that does not wait for the writer to leave
CanRLockAlways(m) == TRUE

\* RLock() returns once no goroutine holds the mutex for writing
CanRLock(m) == m.writer = 0

Lock(m, p) == [m EXCEPT !.writer = p]

Unlock(m, p) == [m EXCEPT !.writer = 0]

RLock(m, p) == [m EXCEPT !.readers = @ \cup {p}]

RUnlock(m, p) == [m EXCEPT !.readers = @ \ {p}]

\* the calls that fail validation: <<operation, id, userID, text>>
InvalidCalls ==
    {c \in ({"CreateEvent", "UpdateEvent", "DeleteEvent"} \cup QueryOps)
              \X (IDs \cup {""}) \X ConcUserIDs \X (ConcTexts \cup {""}) :
        \/ c[1] = "CreateEvent" /\ (c[3] <= 0 \/ c[4] = "")
        \/ c[1] = "UpdateEvent" /\ (c[2] = "" \/ c[3] <= 0 \/ c[4] = "")
        \/ c[1] = "DeleteEvent" /\ c[2] = ""
        \/ c[1] \in QueryOps /\ c[3] <= 0}

\* a call whose validation fails returns before it touches the mutex
ReturnInvalid(p) ==
    /\ proc[p].pc = "idle"
    /\ InvalidCalls # {}
    /\ UNCHANGED vars

\* CreateEvent up to s.mu.Lock(): validation, normalizeDate, uuid.NewString
CreateLock(p) ==
    /\ proc[p].pc = "idle"
    /\ CanLock(mu)
    /\ \E userID \in ConcUserIDs, date \in ConcTimes, text \in ConcTexts,
          newID \in NewString(issued) :
          /\ userID > 0
          /\ proc' = [proc EXCEPT ![p] =
                 [pc |-> "create_bucket", op |-> "CreateEvent", id |-> newID,
                  userID |-> userID, date |-> date, text |-> text, uid |-> 0]]
          /\ issued' = issued \cup {newID}
    /\ mu' = Lock(mu, p)
    /\ UNCHANGED <<userToEventsMap, deleted, ret, committed>>

\* if _, ok := s.userToEventsMap[userID]; !ok { ... = make(map[string]Event) }
CreateBucket(p) ==
    /\ proc[p].pc = "create_bucket"
    /\ userToEventsMap' =
           IF proc[p].userID \in DOMAIN userToEventsMap THEN userToEventsMap
           ELSE MapSet(userToEventsMap, proc[p].userID, EmptyMap)
    /\ proc' = [proc EXCEPT ![p].pc = "create_insert"]
    /\ UNCHANGED <<issued, deleted, ret, mu, committed>>

\* s.userToEventsMap[userID][newEvent.ID] = newEvent
CreateInsert(p) ==
    /\ proc[p].pc = "create_insert"
    /\ LET c == proc[p]
           newEvent == Event(c.id, c.userID, normalizeDate(c.date), c.text)
       IN  userToEventsMap' =
               MapSet(userToEventsMap, c.userID,
                      MapSet(userToEventsMap[c.userID], c.id, newEvent))
    /\ proc' = [proc EXCEPT ![p].pc = "unlock"]
    /\ UNCHANGED <<issued, deleted, ret, mu, committed>>

\* UpdateEvent up to s.mu.Lock()
UpdateLock(p) ==
    /\ proc[p].pc = "idle"
    /\ CanLock(mu)
    /\ \E id \in IDs, userID \in ConcUserIDs, date \in ConcTimes,
          text \in ConcTexts :
          /\ userID > 0
          /\ proc' = [proc EXCEPT ![p] =
                 [pc |-> "update", op |-> "UpdateEvent", id |-> id,
                  userID |-> userID, date |-> date, text |-> text, uid |-> 0]]
    /\ mu' = Lock(mu, p)
    /\ UNCHANGED <<userToEventsMap, issued, deleted, ret, committed>>

\* the two lookups of UpdateEvent and, when both succeed, the write back
UpdateStore(p) ==
    /\ proc[p].pc = "update"
    /\ LET c == proc[p]
       IN  IF c.userID \in DOMAIN userToEventsMap
              /\ c.id \in DOMAIN userToEventsMap[c.userID]
           THEN LET ev == [userToEventsMap[c.userID][c.id] EXCEPT
                               !.Date = normalizeDate(c.date), !.Text = c.text]
                IN  userToEventsMap' =
                        MapSet(userToEventsMap, c.userID,
                               MapSet(userToEventsMap[c.userID], c.id, ev))
           ELSE UNCHANGED userToEventsMap
    /\ proc' = [proc EXCEPT ![p].pc = "unlock"]
    /\ UNCHANGED <<issued, deleted, ret, mu, committed>>

\* DeleteEvent up to s.mu.Lock()
DeleteLock(p) ==
    /\ proc[p].pc = "idle"
    /\ CanLock(mu)
    /\ \E id \in IDs, userID \in ConcUserIDs :
          proc' = [proc EXCEPT ![p] =
              [pc |-> "delete", op |-> "DeleteEvent", id |-> id,
               userID |-> userID, date |-> ZeroTime, text |-> "", uid |-> 0]]
    /\ mu' = Lock(mu, p)
    /\ UNCHANGED <<userToEventsMap, issued, deleted, ret, committed>>

\* DeleteEvent under the lock, up to and including delete(userEvents, id):
\* the scoped branch, or the loop of the unscoped branch up to the bucket of
\* uid in which it finds id
DeleteStore(p) ==
    /\ proc[p].pc = "delete"
    /\ LET c == proc[p]
           holders == {uid \in DOMAIN userToEventsMap :
                           c.id \in DOMAIN userToEventsMap[uid]}
       IN  IF c.userID > 0
           THEN /\ userToEventsMap' =
                       DeleteScoped(userToEventsMap, c.id, c.userID).store
                /\ deleted' = IF c.userID \in holders
                              THEN deleted \cup {c.id} ELSE deleted
                /\ proc' = [proc EXCEPT ![p].pc = "unlock"]
           ELSE IF holders = {}
           THEN /\ proc' = [proc EXCEPT ![p].pc = "unlock"]
                /\ UNCHANGED <<userToEventsMap, deleted>>
           ELSE \E uid \in holders :
                   LET userEvents == MapDelete(userToEventsMap[uid], c.id)
                   IN  /\ userToEventsMap' =
                               MapSet(userToEventsMap, uid, userEvents)
                       /\ deleted' = deleted \cup {c.id}
                       /\ proc' = [proc EXCEPT
                              ![p].pc = IF DOMAIN userEvents = {}
                                        THEN "delete_bucket" ELSE "unlock",
                              ![p].uid = uid]
    /\ UNCHANGED <<issued, ret, mu, committed>>

\* if len(userEvents) == 0 { delete(s.userToEventsMap, uid) }
DeleteBucket(p) ==
    /\ proc[p].pc = "delete_bucket"
    /\ userToEventsMap' = MapDelete(userToEventsMap, proc[p].uid)
    /\ proc' = [proc EXCEPT ![p].pc = "unlock"]
    /\ UNCHANGED <<issued, deleted, ret, mu, committed>>

\* what the call c does to the map m when it runs as a whole
Effect(m, c) ==
    IF c.op = "CreateEvent"
    THEN {CreateEvent(m, c.id, c.userID, c.date, c.text).store}
    ELSE IF c.op = "UpdateEvent"
    THEN {UpdateEvent(m, c.id, c.userID, c.date, c.text).store}
    ELSE {r.store : r \in DeleteEvent(m, c.id, c.userID)}

\* the return of a mutating call: the deferred s.mu.Unlock()
Return(p) ==
    /\ proc[p].pc = "unlock"
    /\ mu' = Unlock(mu, p)
    /\ committed' \in Effect(committed, proc[p])
    /\ proc' = [proc EXCEPT ![p] = IdleProc]
    /\ UNCHANGED <<userToEventsMap, issued, deleted, ret>>

\* a range query up to s.mu.RLock()
QueryRLock(p) ==
    /\ proc[p].pc = "idle"
    /\ CanRLock(mu)
    /\ \E op \in QueryOps, userID \in ConcUserIDs, date \in ConcTimes :
          /\ userID > 0
          /\ proc' = [proc EXCEPT ![p] =
                 [pc |-> "read", op |-> op, id |-> "", userID |-> userID,
                  date |-> date, text |-> "", uid |-> 0]]
    /\ mu' = RLock(mu, p)
    /\ UNCHANGED <<userToEventsMap, issued, deleted, ret, committed>>

\* what the query c returns when it reads the map m
Query(m, c) ==
    IF c.op = "EventsForDay" THEN EventsForDay(m, c.userID, c.date)
    ELSE IF c.op = "EventsForWeek" THEN EventsForWeek(m, c.userID, c.date)
    ELSE EventsForMonth(m, c.userID, c.date)

\* the query reads the map, sorts what it found and returns it to its
\* caller with a nil error: the deferred s.mu.RUnlock()
QueryReturn(p) ==
    /\ proc[p].pc = "read"
    /\ Query(userToEventsMap, proc[p]).err = nil
    /\ mu' = RUnlock(mu, p)
    /\ proc' = [proc EXCEPT ![p] = IdleProc]
    /\ UNCHANGED <<userToEventsMap, issued, deleted, ret, committed>>

NextConc ==
    \E p \in Procs :
        \/ ReturnInvalid(p)
        \/ CreateLock(p)
        \/ CreateBucket(p)
        \/ CreateInsert(p)
        \/ UpdateLock(p)
        \/ UpdateStore(p)
        \/ DeleteLock(p)
        \/ DeleteStore(p)
        \/ DeleteBucket(p)
        \/ Return(p)
        \/ QueryRLock(p)
        \/ QueryReturn(p)

SpecConc == Init /\ [][NextConc]_vars

(***************************************************************************)
(* Vocabulary of the properties                                            *)
(***************************************************************************)
\* the entries of the whole store: <<bucket key, map key, event>>
Entries(m) ==
    UNION {{<<uid, id, m[uid][id]>> : id \in DOMAIN m[uid]} : uid \in DOMAIN m}

\* the users whose bucket holds id
Holders(m, id) == {uid \in DOMAIN m : id \in DOMAIN m[uid]}

\* midnight of the calendar day of d in d's own location
Midnight(d) == [day |-> d.day, hour |-> 0, off |-> d.off]

Queries == {"EventsForDay", "EventsForWeek", "EventsForMonth"}

(***************************************************************************)
(* C1                                                                      *)
(***************************************************************************)
\* C1 as stated: every CreateEvent, UpdateEvent, EventsForDay, EventsForWeek
\* and EventsForMonth call with userID <= 0 fails with InvalidUserID,
\* whatever the other arguments are (an empty id included).
C1_AsStated ==
    (ret.op \in {"CreateEvent", "UpdateEvent"} \cup Queries /\ ret.userID <= 0)
        => ret.err = ErrInvalidUserID

\* C1 amended: with userID <= 0, CreateEvent and the three queries fail with
\* InvalidUserID whatever the other arguments are, and so does UpdateEvent
\* when its id is not empty; UpdateEvent with an empty id fails with NotFound.
C1_InvalidUserID ==
    (ret.op \in {"CreateEvent", "UpdateEvent"} \cup Queries /\ ret.userID <= 0)
        => /\ ret.err = IF ret.op = "UpdateEvent" /\ ret.id = ""
                        THEN ErrNotFound ELSE ErrInvalidUserID
           /\ ret.ev = NoEvent
           /\ ret.events = <<>>

\* a CreateEvent call with userID <= 0 and an empty text has failed
C1_Witness ==
    /\ ret.op = "CreateEvent"
    /\ ret.userID <= 0
    /\ ret.text = ""
    /\ ret.err = ErrInvalidUserID

(***************************************************************************)
(* C2                                                                      *)
(***************************************************************************)
\* C2 as stated: whenever userID <= 0 or text is empty, UpdateEvent returns
\* the validation error and never NotFound, whatever the id is.
C2_AsStated ==
    (ret.op = "UpdateEvent" /\ (ret.userID <= 0 \/ ret.text = ""))
        => ret.err \in {ErrInvalidUserID, ErrInvalidText}

\* C2 amended: for a non-empty id (unknown, or owned by another user),
\* whenever userID <= 0 or text is empty UpdateEvent returns the validation
\* error (InvalidUserID if userID <= 0, else InvalidText) and never NotFound;
\* for an empty id it returns NotFound before any validation.
C2_ValidationBeforeLookup ==
    (ret.op = "UpdateEvent" /\ (ret.userID <= 0 \/ ret.text = ""))
        => ret.err = IF ret.id = "" THEN ErrNotFound
                     ELSE IF ret.userID <= 0 THEN ErrInvalidUserID
                     ELSE ErrInvalidText

\* UpdateEvent has returned InvalidText for an id that the caller does not
\* own (another user's bucket holds it)
C2_Witness ==
    /\ ret.op = "UpdateEvent"
    /\ ret.err = ErrInvalidText
    /\ ret.userID > 0
    /\ Holders(userToEventsMap, ret.id) # {}
    /\ ret.userID \notin Holders(userToEventsMap, ret.id)

(***************************************************************************)
(* C3                                                                      *)
(***************************************************************************)
\* C3: after any sequence of CreateEvent/UpdateEvent/DeleteEvent calls every
\* bucket present in the store contains at least one event.
C3_NoEmptyBucket ==
    \A uid \in DOMAIN userToEventsMap : DOMAIN userToEventsMap[uid] # {}

(***************************************************************************)
(* C4                                                                      *)
(***************************************************************************)
\* C4: UpdateEvent(id, u, date, text) with u > 0 and a non-empty text, for an
\* id that exists only in the bucket of another user v, returns NotFound and
\* leaves the store (so the date and text of v's event) as it was.
C4_UpdateScopedByUser ==
    [][(/\ ret'.op = "UpdateEvent"
        /\ ret'.userID > 0
        /\ ret'.text # ""
        /\ Holders(userToEventsMap, ret'.id) # {}
        /\ ret'.userID \notin Holders(userToEventsMap, ret'.id))
       => /\ ret'.err = ErrNotFound
          /\ ret'.ev = NoEvent
          /\ Entries(userToEventsMap') = Entries(userToEventsMap)]_vars

\* UpdateEvent with valid arguments was refused for an id of another user
C4_Witness ==
    /\ ret.op = "UpdateEvent"
    /\ ret.userID > 0
    /\ ret.text # ""
    /\ ret.err = ErrNotFound
    /\ \E v \in Holders(userToEventsMap, ret.id) :
          /\ v # ret.userID
          /\ userToEventsMap[v][ret.id].Text # ret.text

(***************************************************************************)
(* C5                                                                      *)
(***************************************************************************)
\* C5: DeleteEvent(id, u) with u > 0 succeeds and removes exactly the entry
\* id of the bucket of u when that bucket holds id; otherwise (u has no
\* bucket, or its bucket does not hold id, even if another user's does) it
\* returns NotFound and removes nothing.
C5_DeleteScoped ==
    [][(ret'.op = "DeleteEvent" /\ ret'.userID > 0)
       => LET m  == userToEventsMap
              u  == ret'.userID
              id == ret'.id
          IN  IF u \in Holders(m, id)
              THEN /\ ret'.err = nil
                   /\ Entries(userToEventsMap') = Entries(m) \ {<<u, id, m[u][id]>>}
              ELSE /\ ret'.err = ErrNotFound
                   /\ userToEventsMap' = m]_vars

\* a scoped DeleteEvent was refused although another user's bucket holds id
C5_Witness ==
    /\ ret.op = "DeleteEvent"
    /\ ret.userID > 0
    /\ ret.err = ErrNotFound
    /\ Holders(userToEventsMap, ret.id) # {}

(***************************************************************************)
(* C6                                                                      *)
(***************************************************************************)
\* C6: DeleteEvent(id, u) with u <= 0 and a non-empty id succeeds when some
\* bucket holds id and then removes exactly one entry, an entry with that id
\* (every other event of every user stays); it returns NotFound, and changes
\* nothing, only when no bucket holds id.
C6_DeleteUnscoped ==
    [][(ret'.op = "DeleteEvent" /\ ret'.userID <= 0 /\ ret'.id # "")
       => LET m  == userToEventsMap
              id == ret'.id
          IN  IF Holders(m, id) # {}
              THEN /\ ret'.err = nil
                   /\ \E uid \in Holders(m, id) :
                        Entries(userToEventsMap')
                            = Entries(m) \ {<<uid, id, m[uid][id]>>}
              ELSE /\ ret'.err = ErrNotFound
                   /\ userToEventsMap' = m]_vars

\* an unscoped DeleteEvent has succeeded and another event is still stored
C6_Witness ==
    /\ ret.op = "DeleteEvent"
    /\ ret.userID <= 0
    /\ ret.err = nil
    /\ Entries(userToEventsMap) # {}

(***************************************************************************)
(* C7                                                                      *)
(***************************************************************************)
\* C7: once a DeleteEvent of an id has succeeded, every later DeleteEvent of
\* that id (scoped to any user, or unscoped), after any operations in
\* between, returns NotFound.
C7_SecondDeleteNotFound ==
    [][(ret'.op = "DeleteEvent" /\ ret'.id \in deleted)
       => ret'.err = ErrNotFound]_vars

\* a DeleteEvent of an already deleted id was refused while every
\* identifier has been issued and another event is stored (so calls came in
\* between)
C7_Witness ==
    /\ ret.op = "DeleteEvent"
    /\ ret.id \in deleted
    /\ ret.err = ErrNotFound
    /\ issued = IDs
    /\ Entries(userToEventsMap) # {}

(***************************************************************************)
(* C8                                                                      *)
(***************************************************************************)
\* C8: a successful CreateEvent(u, d, text) returns the event (fresh id, u,
\* midnight of d's calendar day, text); EventsForDay(u, d) called next
\* contains that event exactly once, and returns exactly that one event when
\* u had no event on day d before the call.
C8_CreateThenDay ==
    [][(ret'.op = "CreateEvent" /\ ret'.err = nil)
       => LET u      == ret'.userID
              d      == ret'.date
              before == EventsForDay(userToEventsMap, u, d)
              after  == EventsForDay(userToEventsMap', u, d)
          IN  /\ ret'.ev = Event(ret'.ev.ID, u, Midnight(d), ret'.text)
              /\ ret'.ev.ID \in IDs \ issued
              /\ after.err = nil
              /\ Cardinality({i \in 1..Len(after.events) :
                                 after.events[i] = ret'.ev}) = 1
              /\ Len(after.events) = Len(before.events) + 1
              /\ before.events = <<>> => after.events = <<ret'.ev>>]_vars

\* CreateEvent has succeeded with a time that is not a midnight, for a user
\* who has exactly that one event on the day
C8_Witness ==
    /\ ret.op = "CreateEvent"
    /\ ret.err = nil
    /\ ret.date.hour # 0
    /\ EventsForDay(userToEventsMap, ret.userID, ret.date).events = <<ret.ev>>

(***************************************************************************)
(* C9                                                                      *)
(***************************************************************************)
\* C9: a successful UpdateEvent(id, u, date, text) returns the stored event
\* with its id and userID kept and its date (midnight of date's calendar
\* day) and text replaced, stores it under the same keys, and leaves the
\* keys of every bucket and every other event unchanged; and no step
\* changes the UserID of an event that stays in the store or moves it to
\* another bucket.
C9_UpdateFrame ==
    [][/\ (ret'.op = "UpdateEvent" /\ ret'.err = nil)
          => LET m   == userToEventsMap
                 u   == ret'.userID
                 id  == ret'.id
                 new == Event(m[u][id].ID, m[u][id].UserID,
                              Midnight(ret'.date), ret'.text)
             IN  /\ ret'.ev = new
                 /\ DOMAIN userToEventsMap' = DOMAIN m
                 /\ \A uid \in DOMAIN m :
                       DOMAIN userToEventsMap'[uid] = DOMAIN m[uid]
                 /\ Entries(userToEventsMap')
                       = (Entries(m) \ {<<u, id, m[u][id]>>}) \cup {<<u, id, new>>}
       /\ \A e \in Entries(userToEventsMap) :
             Holders(userToEventsMap', e[2]) # {}
                => /\ Holders(userToEventsMap', e[2]) = {e[1]}
                   /\ userToEventsMap'[e[1]][e[2]].UserID = e[3].UserID]_vars

\* UpdateEvent has succeeded with a new text while another event is stored
C9_Witness ==
    /\ ret.op = "UpdateEvent"
    /\ ret.err = nil
    /\ ret.date.hour # 0
    /\ Cardinality(Entries(userToEventsMap)) > 1
    /\ \E e \in Entries(userToEventsMap) : e[3].Text # ret.text

(***************************************************************************)
(* C10                                                                     *)
(***************************************************************************)
\* the Monday that starts the Monday..Sunday week of calendar day n
\* (day 0, 1970-01-01, was a Thursday)
MondayOf(n) == n - ((n + 3) % 7)

\* the instant of midnight of calendar day n in the location of q
MidnightInstant(n, q) == n * 24 - q.off

\* the events of u whose date lies in the Monday..Sunday week of q, the week
\* taken in q's location
InWeek(m, u, q) ==
    IF u \notin DOMAIN m THEN {}
    ELSE {ev \in Values(m[u]) :
            /\ MidnightInstant(MondayOf(q.day), q) <= Instant(ev.Date)
            /\ Instant(ev.Date) < MidnightInstant(MondayOf(q.day) + 7, q)}

Range(seq) == {seq[i] : i \in 1..Len(seq)}

\* C10: EventsForWeek(u, anyDay) with u > 0 returns exactly the events of u
\* with Monday <= date < Monday + 7 days, Monday being the start of the
\* Monday..Sunday week of anyDay (a Sunday belongs to the week that started
\* six days before it); a query for any other day of that week (same
\* location) returns the same; an event on the following Monday or on the
\* preceding Sunday is not returned.
C10_Week ==
    (ret.op = "EventsForWeek" /\ ret.userID > 0)
        => LET m == userToEventsMap
               u == ret.userID
               q == ret.date
           IN  /\ ret.err = nil
               /\ Range(ret.events) = InWeek(m, u, q)
               /\ Len(ret.events) = Cardinality(InWeek(m, u, q))
               /\ \A q2 \in Times :
                     (q2.off = q.off /\ MondayOf(q2.day) = MondayOf(q.day))
                        => EventsForWeek(m, u, q2).events = ret.events
               /\ \A ev \in Range(ret.events) :
                     /\ ev.Date # Midnight([q EXCEPT !.day = MondayOf(q.day) + 7])
                     /\ ev.Date # Midnight([q EXCEPT !.day = MondayOf(q.day) - 1])

\* EventsForWeek was asked for a Sunday and has returned the event of the
\* Monday six days before, but not the user's event of the day after
C10_Witness ==
    /\ ret.op = "EventsForWeek"
    /\ ret.userID > 0
    /\ Weekday(ret.date) = 0
    /\ \E ev \in Range(ret.events) : ev.Date.day = ret.date.day - 6
    /\ \E ev \in Values(userToEventsMap[ret.userID]) :
          ev.Date = Midnight([ret.date EXCEPT !.day = ret.date.day + 1])

(***************************************************************************)
(* C11                                                                     *)
(***************************************************************************)
\* the first days of December 2023, January 2024 and February 2024
MonthFirstDays == {19692, 19723, 19754}

\* the first day of the month of calendar day n, and of the month after it
FirstOfMonth(n) ==
    CHOOSE f \in MonthFirstDays :
        f <= n /\ \A g \in MonthFirstDays : g <= n => g <= f

FirstOfNextMonth(n) ==
    CHOOSE f \in MonthFirstDays :
        f > n /\ \A g \in MonthFirstDays : g > n => f <= g

\* the events of u whose date lies in the month of q, the month taken in
\* q's location
InMonth(m, u, q) ==
    IF u \notin DOMAIN m THEN {}
    ELSE {ev \in Values(m[u]) :
            /\ MidnightInstant(FirstOfMonth(q.day), q) <= Instant(ev.Date)
            /\ Instant(ev.Date) < MidnightInstant(FirstOfNextMonth(q.day), q)}

\* C11: EventsForMonth(u, anyDay) with u > 0 returns exactly the events of u
\* with first day of the month <= date < first day of the following month
\* (the month of anyDay, in anyDay's location); a query for any other day
\* of that month returns the same; an event on the last day of the month is
\* returned and an event on the first day of the next month is not, also
\* from December to January.
C11_Month ==
    (ret.op = "EventsForMonth" /\ ret.userID > 0)
        => LET m    == userToEventsMap
               u    == ret.userID
               q    == ret.date
               last == Midnight([q EXCEPT !.day = FirstOfNextMonth(q.day) - 1])
               next == Midnight([q EXCEPT !.day = FirstOfNextMonth(q.day)])
           IN  /\ ret.err = nil
               /\ Range(ret.events) = InMonth(m, u, q)
               /\ Len(ret.events) = Cardinality(InMonth(m, u, q))
               /\ \A q2 \in Times :
                     (q2.off = q.off /\ FirstOfMonth(q2.day) = FirstOfMonth(q.day))
                        => EventsForMonth(m, u, q2).events = ret.events
               /\ u \in DOMAIN m =>
                     \A ev \in Values(m[u]) :
                        /\ ev.Date = last => ev \in Range(ret.events)
                        /\ ev.Date = next => ev \notin Range(ret.events)

\* EventsForMonth was asked for 2023-12-24 and has returned the user's event
\* of 2023-12-31 but not the user's event of 2024-01-01
C11_Witness ==
    /\ ret.op = "EventsForMonth"
    /\ ret.userID > 0
    /\ ret.date.day = 19715
    /\ \E ev \in Range(ret.events) : ev.Date.day = 19722
    /\ \E ev \in Values(userToEventsMap[ret.userID]) :
          ev.Date.day = 19723 /\ ev \notin Range(ret.events)

(***************************************************************************)
(* C12                                                                     *)
(***************************************************************************)
\* C12: every result of EventsForDay, EventsForWeek and EventsForMonth is
\* strictly ascending by (date, identifier): dates never decrease, equal
\* dates come in ascending identifier order, and no event appears twice; so
\* the result is the one ordering of the matching events that the store
\* content determines.
C12_Sorted ==
    (ret.op \in Queries /\ ret.err = nil)
        => /\ \A i, j \in 1..Len(ret.events) :
                 i < j =>
                    \/ Instant(ret.events[i].Date) < Instant(ret.events[j].Date)
                    \/ /\ Instant(ret.events[i].Date) = Instant(ret.events[j].Date)
                       /\ Rank(ret.events[i].ID) < Rank(ret.events[j].ID)
           /\ Cardinality(Range(ret.events)) = Len(ret.events)
           /\ Range(ret.events) \subseteq
                 (IF ret.userID \in DOMAIN userToEventsMap
                  THEN Values(userToEventsMap[ret.userID]) ELSE {})

\* a query has returned two events of different dates, the later one
\* carrying the smaller identifier
C12_Witness ==
    /\ ret.op \in Queries
    /\ Len(ret.events) = 2
    /\ Before(ret.events[1].Date, ret.events[2].Date)
    /\ StringLess(ret.events[2].ID, ret.events[1].ID)

(***************************************************************************)
(* C13                                                                     *)
(***************************************************************************)
\* C13: for userID > 0 the three queries never return an error, and they
\* return the empty sequence when the user has no bucket (never had events,
\* or lost the last one to an unscoped delete), when the bucket is empty
\* (lost the last one to a scoped delete), and when no event is in range.
C13_QueriesNeverFail ==
    (ret.op \in Queries /\ ret.userID > 0)
        => LET m == userToEventsMap
               u == ret.userID
           IN  /\ ret.err = nil
               /\ (u \notin DOMAIN m \/ DOMAIN m[u] = {}) => ret.events = <<>>
               /\ (ret.op = "EventsForDay" /\ u \in DOMAIN m
                     /\ \A ev \in Values(m[u]) : ~Equal(ev.Date, Midnight(ret.date)))
                    => ret.events = <<>>

\* a query for a user all of whose events were deleted, whose emptied
\* bucket is still in the map, has returned the empty sequence
C13_Witness ==
    /\ ret.op \in Queries
    /\ ret.userID > 0
    /\ ret.events = <<>>
    /\ ret.err = nil
    /\ deleted # {}
    /\ Entries(userToEventsMap) = {}
    /\ ret.userID \in DOMAIN userToEventsMap

(***************************************************************************)
(* C14                                                                     *)
(***************************************************************************)
\* the goroutines between Lock() and Unlock()
Writers == {p \in Procs : proc[p].pc \in WriterCS}

\* the goroutines between RLock() and RUnlock()
Readers == {p \in Procs : proc[p].pc \in ReaderCS}

\* C14: under any interleaving of concurrent callers, at most one mutation
\* is in its critical section, no range query is in its critical section
\* while a mutation is in its own, and the store map changes only in a step
\* of the one goroutine that holds the mutex for writing (several range
\* queries may be in their critical sections together).
C14_ExclusiveAccess ==
    [][/\ Cardinality(Writers') <= 1
       /\ Writers' # {} => Readers' = {}
       /\ userToEventsMap' # userToEventsMap
            => \E p \in Procs :
                  /\ Writers = {p}
                  /\ Readers = {}
                  /\ mu.writer = p
                  /\ proc'[p] # proc[p]
                  /\ \A q \in Procs \ {p} : proc'[q] = proc[q]]_vars

\* two range queries are reading at the same time, after a mutation has
\* returned
C14_Witness ==
    /\ Cardinality(Readers) >= 2
    /\ Entries(committed) # {}

(***************************************************************************)
(* C15                                                                     *)
(***************************************************************************)
\* C15: under any interleaving, whenever no mutation is in its critical
\* section, and whenever a range query is in its own, the store map is
\* exactly what the mutations that have returned produce when each is
\* applied as one atomic step in the order of their returns; and a range
\* query returns what it would return on that map, so it reflects every
\* mutation that returned before it started and nothing of a mutation that
\* is partially applied.
C15_AtomicAndVisible ==
    [][/\ (Writers' = {} \/ Readers' # {}) => userToEventsMap' = committed'
       /\ \A p \in Procs :
            (proc[p].pc = "read" /\ proc'[p].pc = "idle")
                => /\ Query(userToEventsMap, proc[p]).err
                       = Query(committed, proc[p]).err
                   /\ Query(userToEventsMap, proc[p]).events
                       = Query(committed, proc[p]).events]_vars

\* a range query started after a CreateEvent and a DeleteEvent returned is
\* reading, and finds the event that was created and not deleted
C15_Witness ==
    /\ deleted # {}
    /\ \E p \in Readers :
          Query(userToEventsMap, proc[p]).events # <<>>

(***************************************************************************)
(* C16                                                                     *)
(***************************************************************************)
\* C16: every stored date is a midnight, and EventsForDay(u, day) returns
\* every event of u that was created or updated with a time value of the
\* calendar day of day, whatever the time of day and the time zone of the
\* two values.
C16_SameCalendarDay ==
    /\ \A e \in Entries(userToEventsMap) : e[3].Date.hour = 0
    /\ (ret.op = "EventsForDay" /\ ret.userID \in DOMAIN userToEventsMap)
          => \A ev \in Values(userToEventsMap[ret.userID]) :
                ev.Date.day = ret.date.day => ev \in Range(ret.events)

(***************************************************************************)
(* C17                                                                     *)
(***************************************************************************)
\* the three range queries of u for the date of ev all return ev
Queryable(m, u, ev) ==
    /\ ev \in Range(EventsForDay(m, u, ev.Date).events)
    /\ ev \in Range(EventsForWeek(m, u, ev.Date).events)
    /\ ev \in Range(EventsForMonth(m, u, ev.Date).events)

\* C17: every identifier that CreateEvent has issued and that no successful
\* DeleteEvent has removed is still stored, in exactly one bucket and under
\* its own id, whatever calls came in between; and between calls the three
\* range queries of its user for its current date return it.
C17_OnlyDeleteRemoves ==
    \A id \in issued \ deleted :
        \E u \in DOMAIN userToEventsMap :
            /\ Holders(userToEventsMap, id) = {u}
            /\ userToEventsMap[u][id].ID = id
            /\ userToEventsMap[u][id].UserID = u
            /\ ret = Idle => Queryable(userToEventsMap, u, userToEventsMap[u][id])

\* an event has been updated after another event was deleted, and the
\* queries of its user return it
C17_Witness ==
    /\ ret.op = "UpdateEvent"
    /\ ret.err = nil
    /\ deleted # {}
    /\ Queryable(userToEventsMap, ret.userID, ret.ev)

(***************************************************************************)
(* C18                                                                     *)
(***************************************************************************)
\* C18: a call that returns an error leaves the map as it was: the same
\* buckets with the same events.
C18_ErrorChangesNothing ==
    [][(ret'.op # "" /\ ret'.err # nil)
       => /\ userToEventsMap' = userToEventsMap
          /\ DOMAIN userToEventsMap' = DOMAIN userToEventsMap]_vars

\* an unscoped DeleteEvent of an unknown id was refused while events are
\* stored
C18_Witness ==
    /\ ret.op = "DeleteEvent"
    /\ ret.userID <= 0
    /\ ret.id # ""
    /\ ret.err = ErrNotFound
    /\ Entries(userToEventsMap) # {}

(***************************************************************************)
(* C19                                                                     *)
(***************************************************************************)
\* C19: in every reachable state each identifier is a key of at most one
\* bucket, every event is stored under the key equal to its ID in the
\* bucket whose key equals its UserID, every bucket key is > 0 and every
\* stored text is non-empty.
C19_StorageConsistent ==
    /\ \A id \in IDs : Cardinality(Holders(userToEventsMap, id)) <= 1
    /\ \A uid \in DOMAIN userToEventsMap : uid > 0
    /\ \A e \in Entries(userToEventsMap) :
          /\ e[3].ID = e[2]
          /\ e[3].UserID = e[1]
          /\ e[3].Text # ""
          /\ e[2] \in issued

\* two users hold one event each, one of them just updated
C19_Witness ==
    /\ ret.op = "UpdateEvent"
    /\ ret.err = nil
    /\ Cardinality({uid \in DOMAIN userToEventsMap :
                       DOMAIN userToEventsMap[uid] # {}}) = 2

(***************************************************************************)
(* C20                                                                     *)
(***************************************************************************)
\* user_id is written as a decimal number: an optional sign and digits
IsNumber(s) ==
    LET digits == IF s # <<>> /\ s[1] \in {"+", "-"} THEN Tail(s) ELSE s
    IN  digits # <<>> /\ \A i \in 1..Len(digits) : digits[i] \in Range(DecimalDigits)

\* user_id is written as a number > 0
IsPositiveNumber(s) ==
    /\ IsNumber(s)
    /\ s[1] # "-"
    /\ \E i \in 1..Len(s) : s[i] \notin {"+", "0"}

\* the decimal writing of n > 0
RECURSIVE Decimal(_)
Decimal(n) ==
    IF n < 10 THEN <<DecimalDigits[n + 1]>>
    ELSE Decimal(n \div 10) \o <<DecimalDigits[(n % 10) + 1]>>

\* a positive number without its sign and leading zeros
RECURSIVE Canonical(_)
Canonical(s) ==
    IF s[1] \in {"+", "0"} THEN Canonical(Tail(s)) ELSE s

====
